---- MODULE Spec2Model ----
(***************************************************************************)
(* A model of the DICOM viewer back end (src/app.py): slice ordering,      *)
(* modality LUT, volume assembly, plane extraction, window normalisation   *)
(* and the session folder the HTTP handlers read and write.                *)
(*                                                                         *)
(* Numbers.  Python floats are modelled by integers: positions are counted *)
(* in units of 1.25 mm, pixel values, slopes, intercepts and windows are   *)
(* integers, and the one place where the code produces a fraction (the     *)
(* window scaling followed by astype(uint8)) is computed exactly, as a     *)
(* truncated quotient of integers.                                         *)
(*                                                                         *)
(* Optional DICOM attributes.  An attribute that a dataset may lack is a   *)
(* sequence: << >> when hasattr() is false, <<v>> when it holds v.         *)
(***************************************************************************)
EXTENDS Integers, Sequences, FiniteSets, TLC

VARIABLES
    files,      \* the decoded DICOM datasets at hand, in discovery order
    pc,         \* where the harness of the pure functions stands
    once,       \* load_dicom_slices(files)
    twice,      \* load_dicom_slices applied to the slices `once` returned
    grid,       \* the 2-D array fed to apply_modality_lut or normalize_image
    window,     \* (window_center, window_width) given to normalize_image
    image,      \* what the pixel function returned
    uploads,    \* UPLOAD_FOLDER: session id -> the files of its directory
    resp,       \* the response of the last HTTP request
    requests    \* client -> the request of it the server is working on

vars == <<files, pc, once, twice, grid, window, image, uploads, resp, requests>>

----------------------------------------------------------------------------
(* Bounds of the model *)

MaxSlices == 3      \* datasets in one series
MaxZ == 2           \* ImagePositionPatient[2] ranges over 0..MaxZ (x 1.25 mm)
MaxInst == 3        \* InstanceNumber ranges over 0..MaxInst
MaxCells == 2       \* cells of the arrays fed to the pixel functions alone
MaxFiles == 2       \* DICOM files of the scan the handlers load
MaxSessions == 1    \* session ids the server hands out
Rows == 2           \* Rows of a slice of the scan
Cols == 3           \* Columns of a slice of the scan

----------------------------------------------------------------------------
(* Optional attributes *)

None == << >>
Some(v) == <<v>>
Has(attr) == attr /= << >>
Get(attr) == attr[1]
Option(S) == {None} \cup {Some(v) : v \in S}

----------------------------------------------------------------------------
(* load_dicom_slices: the ordering of the slices *)

\* key=lambda x: float(x.ImagePositionPatient[2]); raises when the attribute
\* is missing
PositionKeyRaises(s) == \E i \in 1..Len(s) : ~Has(s[i].ImagePositionPatient)
PositionKey(ds) == Get(ds.ImagePositionPatient)

\* key=lambda x: int(x.InstanceNumber) if hasattr(x, 'InstanceNumber') else 0
FallbackKey(ds) == IF Has(ds.InstanceNumber) THEN Get(ds.InstanceNumber) ELSE 0

\* key=lambda x: int(x.InstanceNumber); raises when the attribute is missing
InstanceKeyRaises(s) == \E i \in 1..Len(s) : ~Has(s[i].InstanceNumber)
InstanceKey(ds) == Get(ds.InstanceNumber)

\* list.sort(key=...): the keys are computed first, then the list is sorted
\* stably (equal keys keep their order).  Pairs are <<key, element>>.
RECURSIVE InsertPair(_, _)
InsertPair(p, t) ==
    IF t = << >> THEN <<p>>
    ELSE IF p[1] < Head(t)[1] THEN <<p>> \o t
    ELSE <<Head(t)>> \o InsertPair(p, Tail(t))

RECURSIVE SortPairs(_)
SortPairs(ps) ==
    IF ps = << >> THEN << >>
    ELSE InsertPair(ps[Len(ps)], SortPairs(SubSeq(ps, 1, Len(ps) - 1)))

StableSort(keys, s) ==
    LET sorted == SortPairs([i \in 1..Len(s) |-> <<keys[i], s[i]>>])
    IN  [i \in 1..Len(s) |-> sorted[i][2]]

SortByFallback(s) == StableSort([i \in 1..Len(s) |-> FallbackKey(s[i])], s)
\* a sort that takes the instance number for its first key
SortByPosition_ByInstance(s) == SortByFallback(s)
SortByPosition(s) == StableSort([i \in 1..Len(s) |-> PositionKey(s[i])], s)
SortByInstance(s) == StableSort([i \in 1..Len(s) |-> InstanceKey(s[i])], s)

\* the datasets that have a pixel_array are kept (app.py:50-57)
RECURSIVE WithPixels(_)
WithPixels(fs) ==
    IF fs = << >> THEN << >>
    ELSE IF Head(fs).hasPixels THEN <<Head(fs)>> \o WithPixels(Tail(fs))
    ELSE WithPixels(Tail(fs))

\* The sort of app.py:59-68 applied to the list `s`.  The result is the
\* returned list, or the exception the function lets escape.
OrderSlices(s) ==
    IF s /= << >> /\ Has(s[1].ImagePositionPatient) THEN
        IF ~PositionKeyRaises(s)
        THEN [raised |-> FALSE, slices |-> SortByPosition(s)]
        ELSE [raised |-> FALSE, slices |-> SortByFallback(s)]
    ELSE IF s /= << >> /\ Has(s[1].InstanceNumber) THEN
        IF ~InstanceKeyRaises(s)
        THEN [raised |-> FALSE, slices |-> SortByInstance(s)]
        ELSE [raised |-> TRUE, slices |-> << >>]     \* AttributeError
    ELSE [raised |-> FALSE, slices |-> s]

load_dicom_slices(fs) == OrderSlices(WithPixels(fs))

----------------------------------------------------------------------------
(* Arrays.  A 2-D array is a sequence of rows, a volume a sequence of 2-D  *)
(* arrays; Python's index i is position i + 1.                             *)

NumRows(a) == Len(a)
NumCols(a) == IF a = << >> THEN 0 ELSE Len(a[1])
Cells(a) == {a[r][c] : r \in 1..NumRows(a), c \in 1..NumCols(a)}

Min2(a, b) == IF a <= b THEN a ELSE b
Max2(a, b) == IF a >= b THEN a ELSE b
ArrayMin(a) == CHOOSE m \in Cells(a) : \A v \in Cells(a) : m <= v
ArrayMax(a) == CHOOSE m \in Cells(a) : \A v \in Cells(a) : m >= v

\* np.clip(a, lo, hi) is minimum(maximum(a, lo), hi), also when lo > hi
Clip(v, lo, hi) == Min2(Max2(v, lo), hi)

\* the quotient a / b of two integers (b /= 0) cut to an integer the way
\* astype(np.uint8) cuts a float: toward zero
TruncDiv(a, b) ==
    LET n == IF a < 0 THEN -a ELSE a
        d == IF b < 0 THEN -b ELSE b
    IN  IF (a < 0) = (b < 0) THEN n \div d ELSE -(n \div d)

----------------------------------------------------------------------------
(* apply_modality_lut *)

apply_modality_lut(pixel_array, ds) ==
    IF Has(ds.RescaleSlope) /\ Has(ds.RescaleIntercept)
    THEN [r \in 1..NumRows(pixel_array) |->
            [c \in 1..NumCols(pixel_array) |->
                pixel_array[r][c] * Get(ds.RescaleSlope) + Get(ds.RescaleIntercept)]]
    ELSE pixel_array

----------------------------------------------------------------------------
(* normalize_image.  window_center and window_width are optional (None in  *)
(* Python).  The function returns one array, except where the code casts   *)
(* NaN to uint8, whose result C leaves undefined: normalize_image is the   *)
(* set of the arrays the call can return.                                  *)

UInt8 == 0..255

\* twice img_min and twice img_max (app.py:84-85), so that they stay integers
WindowLow2(wc, ww) == 2 * wc - ww
WindowHigh2(wc, ww) == 2 * wc + ww

\* the scaling without the np.clip of app.py:88
WindowedValue_NoClip(v, wc, ww) ==
    TruncDiv((2 * v - WindowLow2(wc, ww)) * 255,
             WindowHigh2(wc, ww) - WindowLow2(wc, ww))

\* app.py:88-89 and 96 for one element, when img_max /= img_min
WindowedValue(v, wc, ww) ==
    LET lo2 == WindowLow2(wc, ww)
        hi2 == WindowHigh2(wc, ww)
    IN  TruncDiv((Clip(2 * v, lo2, hi2) - lo2) * 255, hi2 - lo2)

Windowed(a, wc, ww) ==
    IF WindowHigh2(wc, ww) = WindowLow2(wc, ww)
    \* 0.0 / 0.0 is NaN in every element; its cast to uint8 is undefined,
    \* the same value for every element
    THEN {[r \in 1..NumRows(a) |-> [c \in 1..NumCols(a) |-> u]] : u \in UInt8}
    ELSE {[r \in 1..NumRows(a) |->
            [c \in 1..NumCols(a) |-> WindowedValue(a[r][c], wc, ww)]]}

\* the range taken from 0 and not from the minimum of the array
AutoRange_NoShift(a) ==
    LET top == ArrayMax(a)
    IN  [r \in 1..NumRows(a) |->
            [c \in 1..NumCols(a) |->
                IF top > 0 THEN TruncDiv(a[r][c] * 255, top) ELSE a[r][c]]]

\* app.py:92-94 and 96
AutoRange(a) ==
    LET lo == ArrayMin(a)
        top == ArrayMax(a) - lo
    IN  [r \in 1..NumRows(a) |->
            [c \in 1..NumCols(a) |->
                IF top > 0 THEN TruncDiv((a[r][c] - lo) * 255, top)
                ELSE a[r][c] - lo]]

normalize_image(pixel_array, window_center, window_width) ==
    IF Has(window_center) /\ Has(window_width)
    THEN Windowed(pixel_array, Get(window_center), Get(window_width))
    ELSE {AutoRange(pixel_array)}

----------------------------------------------------------------------------
(* Datasets *)

\* a dataset that carries only what the ordering reads
OrderDataset(i, z, n) ==
    [file |-> i, hasPixels |-> TRUE,
     ImagePositionPatient |-> z, InstanceNumber |-> n]

Positions == Option(0..MaxZ)
Instances == Option(0..MaxInst)

\* a dataset that carries only what apply_modality_lut reads
LutDataset(slope, intercept) ==
    [RescaleSlope |-> slope, RescaleIntercept |-> intercept]

RawValues == {0, 1, 500}
Slopes == Option({1, 2, 3})
Intercepts == Option({-1024, 0, 7})

Intensities == {-524, 0, 40, 1000, 2000, 2500}
WindowCenters == Option({40, 1000})
WindowWidths == Option({-400, 0, 1, 400, 2000})

\* the arrays of one row and up to MaxCells cells over the values S
RowArrays(S) == UNION {{<<row>> : row \in [1..n -> S]} : n \in 1..MaxCells}

----------------------------------------------------------------------------
(* The scan the handlers load.  File i of the scan is a CT slice in the    *)
(* manner of create_test_dicom.py (every attribute present, one window, a  *)
(* rescale slope and intercept), acquired from the top down so that the    *)
(* positions fall as the file names rise; each file may differ from that   *)
(* in one respect.                                                         *)

Variants ==
    {"plain", "no_position", "no_instance", "no_lut", "no_window",
     "multi_window", "no_pixels", "other_shape"}

RawPixel(i, r, c) == 512 + 100 * (i - 1) + 10 * (r - 1) + (c - 1)

ScanPixels(i, rows, cols) ==
    [r \in 1..rows |-> [c \in 1..cols |-> RawPixel(i, r, c)]]

ScanFile(i, variant) ==
    [file |-> i,
     hasPixels |-> variant /= "no_pixels",
     pixel_array |->
        IF variant = "other_shape" THEN ScanPixels(i, Rows - 1, Cols + 1)
        ELSE ScanPixels(i, Rows, Cols),
     ImagePositionPatient |->
        IF variant = "no_position" THEN None ELSE Some(2 * (MaxFiles - i)),
     InstanceNumber |->
        IF variant = "no_instance" THEN None ELSE Some(i - 1),
     RescaleSlope |-> IF variant = "no_lut" THEN None ELSE Some(2),
     RescaleIntercept |-> IF variant = "no_lut" THEN None ELSE Some(-1024),
     WindowCenter |->
        IF variant = "no_window" THEN << >>
        ELSE IF variant = "multi_window" THEN <<100 * i, 1000>>
        ELSE <<100 + 100 * i>>,
     WindowWidth |->
        IF variant = "no_window" THEN << >>
        ELSE IF variant = "multi_window" THEN <<300, 2000>>
        ELSE <<400>>]

----------------------------------------------------------------------------
(* numpy on a volume *)

Shape2(a) == <<NumRows(a), NumCols(a)>>
Shape3(v) == <<Len(v), NumRows(v[1]), NumCols(v[1])>>

ValueError(msg) == [type |-> "ValueError", message |-> msg, index |-> None]
NoException == [type |-> "", message |-> "", index |-> None]

\* np.stack(arrays): the arrays along a new first axis, in the order given;
\* ValueError when their shapes differ.  An exception is a record of its
\* type, its message and the slice index the message names (none: numpy's
\* message names no index).
np_stack(arrays) ==
    IF \A i \in 1..Len(arrays) : Shape2(arrays[i]) = Shape2(arrays[1])
    THEN [raised |-> FALSE, exception |-> NoException, volume |-> arrays]
    ELSE [raised |-> TRUE,
          exception |-> ValueError("all input arrays must have the same shape"),
          volume |-> << >>]

\* a[i] with Python's index i on an axis of n entries: a negative index
\* counts from the end; outside -n..n-1 numpy raises IndexError
IndexInAxis(i, n) == -n <= i /\ i < n
Position(i, n) == IF i < 0 THEN n + i + 1 ELSE i + 1

\* volume[i], volume[:, i, :] and volume[:, :, i]
AxialPlane(v, i) == v[Position(i, Len(v))]
CoronalPlane(v, i) ==
    [n \in 1..Len(v) |->
        [c \in 1..NumCols(v[1]) |-> v[n][Position(i, NumRows(v[1]))][c]]]
SagittalPlane(v, i) ==
    [n \in 1..Len(v) |->
        [r \in 1..NumRows(v[1]) |-> v[n][r][Position(i, NumCols(v[1]))]]]

----------------------------------------------------------------------------
(* The session folder.  uploads[id] is the directory of session id; its    *)
(* files are dicom.zip with extracted/ (an upload), session.json and       *)
(* volume.npy.  A directory that was removed, or never made, does not      *)
(* exist.  Ids are never handed out twice (uuid4).                         *)

NoDirectory ==
    [exists |-> FALSE, zip |-> FALSE, session_json |-> None, volume_npy |-> None]
EmptyDirectory ==
    [exists |-> TRUE, zip |-> FALSE, session_json |-> None, volume_npy |-> None]

\* the metadata taken from the last slice of the series
Metadata_LastSlice(slices) ==
    LET last_slice == slices[Len(slices)]
        windowed == last_slice.WindowCenter /= << >>
                        /\ last_slice.WindowWidth /= << >>
    IN  [num_slices |-> Len(slices),
         rows |-> NumRows(last_slice.pixel_array),
         columns |-> NumCols(last_slice.pixel_array),
         window_center |->
            IF windowed THEN Some(last_slice.WindowCenter[1]) ELSE None,
         window_width |->
            IF windowed THEN Some(last_slice.WindowWidth[1]) ELSE None]

\* what the handlers need of the metadata of app.py:151-174 (the patient and
\* study strings play no part in any decision); a key that is not set is
\* None, as metadata.get() returns it
Metadata(slices) ==
    LET first_slice == slices[1]
        windowed == first_slice.WindowCenter /= << >>
                        /\ first_slice.WindowWidth /= << >>
    IN  [num_slices |-> Len(slices),
         rows |-> NumRows(first_slice.pixel_array),
         columns |-> NumCols(first_slice.pixel_array),
         window_center |->
            IF windowed THEN Some(first_slice.WindowCenter[1]) ELSE None,
         window_width |->
            IF windowed THEN Some(first_slice.WindowWidth[1]) ELSE None]

\* the slices stacked last to first
BuildVolume_Reversed(slices) ==
    np_stack([i \in 1..Len(slices) |->
                apply_modality_lut(slices[Len(slices) + 1 - i].pixel_array,
                                   slices[Len(slices) + 1 - i])])

\* np.stack([apply_modality_lut(s.pixel_array, s) for s in slices])
BuildVolume(slices) ==
    np_stack([i \in 1..Len(slices) |->
                apply_modality_lut(slices[i].pixel_array, slices[i])])

AttributeError(attr) ==
    [type |-> "AttributeError", message |-> attr, index |-> None]

Failure(op, request, status, error, exception) ==
    [op |-> op, request |-> request, status |-> status, error |-> error,
     exception |-> exception]

----------------------------------------------------------------------------
(* upload_file and load_patient.  Each handler is an operator from the     *)
(* request and the session folder to the folder it leaves and the response *)
(* it gives.  `scan` is the list of decoded files the request points at.   *)

\* '.' in filename and filename.rsplit('.', 1)[1].lower() == 'zip', on the
\* file names the model sends
UploadFilenames == {"", "scan.txt", "SCAN.ZIP"}
allowed_file(filename) == filename = "SCAN.ZIP"

\* what the uploaded file holds: no zip archive at all, an archive without
\* a DICOM file, or the scan
UploadContents == {"garbage", "no_dicom", "scan"}

UploadRequest(has_file, filename, content) ==
    [has_file |-> has_file, filename |-> filename, content |-> content]

\* the content is read only once the file name has passed
UploadRequests ==
    {UploadRequest(FALSE, "", "garbage")} \cup
    {UploadRequest(TRUE, f, "garbage") : f \in UploadFilenames} \cup
    {UploadRequest(TRUE, "SCAN.ZIP", c) : c \in UploadContents}

SessionData(id, metadata, source) ==
    [session_id |-> id, metadata |-> metadata,
     num_slices |-> metadata.num_slices, source |-> source]

Success(op, request, id, metadata) ==
    [op |-> op, request |-> request, status |-> 200, success |-> TRUE,
     session_id |-> id, metadata |-> metadata]

upload_file(request, scan, dirs) ==
    LET id == Len(dirs) + 1
        made == [EmptyDirectory EXCEPT !.zip = TRUE]
        loaded == load_dicom_slices(scan)
        slices == loaded.slices
        metadata == Metadata(slices)
        saved == [made EXCEPT
                    !.session_json = Some(SessionData(id, metadata, "upload"))]
        stacked == BuildVolume(slices)
        Fail(status, error, exception) ==
            Failure("upload", request, status, error, exception)
    IN  IF ~request.has_file
        THEN [uploads |-> dirs,
              resp |-> Fail(400, "No file provided", NoException)]
        ELSE IF request.filename = ""
        THEN [uploads |-> dirs,
              resp |-> Fail(400, "No file selected", NoException)]
        ELSE IF ~allowed_file(request.filename)
        THEN [uploads |-> dirs,
              resp |-> Fail(400, "Only ZIP files are allowed", NoException)]
        ELSE IF request.content = "garbage"
        THEN [uploads |-> Append(dirs, NoDirectory),
              resp |-> Fail(500, "Error processing DICOM files",
                            [type |-> "BadZipFile",
                             message |-> "File is not a zip file",
                             index |-> None])]
        ELSE IF request.content = "no_dicom"
        THEN [uploads |-> Append(dirs, made),
              resp |-> Fail(400, "No DICOM files found in the ZIP", NoException)]
        ELSE IF loaded.raised
        THEN [uploads |-> Append(dirs, NoDirectory),
              resp |-> Fail(500, "Error processing DICOM files",
                            AttributeError("InstanceNumber"))]
        ELSE IF slices = << >>
        THEN [uploads |-> Append(dirs, made),
              resp |-> Fail(400, "Could not load any valid DICOM images",
                            NoException)]
        ELSE IF stacked.raised
        THEN [uploads |-> Append(dirs, NoDirectory),
              resp |-> Fail(500, "Error processing DICOM files",
                            stacked.exception)]
        ELSE [uploads |->
                Append(dirs, [saved EXCEPT !.volume_npy = Some(stacked.volume)]),
              resp |-> Success("upload", request, id, metadata)]

\* the patient path of the request: not there, a plain file, a folder
\* without a DICOM file, or the folder of the scan
PatientPaths == {"missing", "file", "no_dicom", "scan"}

load_patient(request, scan, dirs) ==
    LET id == Len(dirs) + 1
        loaded == load_dicom_slices(scan)
        slices == loaded.slices
        metadata == Metadata(slices)
        saved == [EmptyDirectory EXCEPT
                    !.session_json = Some(SessionData(id, metadata, "dataset"))]
        stacked == BuildVolume(slices)
        Fail(status, error, exception) ==
            Failure("load", request, status, error, exception)
    IN  IF request = "missing"
        THEN [uploads |-> dirs,
              resp |-> Fail(404, "Patient not found", NoException)]
        ELSE IF request = "file"
        THEN [uploads |-> dirs,
              resp |-> Fail(400, "Patient path is not a directory", NoException)]
        ELSE IF request = "no_dicom"
        THEN [uploads |-> dirs,
              resp |-> Fail(400, "No DICOM files found in dataset", NoException)]
        ELSE IF loaded.raised
        THEN [uploads |-> dirs,
              resp |-> Fail(500, "Error loading patient scan",
                            AttributeError("InstanceNumber"))]
        ELSE IF slices = << >>
        THEN [uploads |-> dirs,
              resp |-> Fail(400, "Could not load any valid DICOM images",
                            NoException)]
        ELSE IF stacked.raised
        THEN [uploads |-> Append(dirs, saved),
              resp |-> Fail(500, "Error loading patient scan",
                            stacked.exception)]
        ELSE [uploads |->
                Append(dirs, [saved EXCEPT !.volume_npy = Some(stacked.volume)]),
              resp |-> Success("load", request, id, metadata)]

----------------------------------------------------------------------------
(* get_slice and get_multiplanar_views.  Each is the set of the responses  *)
(* the request can get (one, unless normalize_image meets a window of      *)
(* width 0); neither writes to the session folder.                         *)

Directory(id, dirs) == IF id \in 1..Len(dirs) THEN dirs[id] ELSE NoDirectory

FileNotFoundError(name) ==
    [type |-> "FileNotFoundError", message |-> name, index |-> None]
IndexError(i) ==
    [type |-> "IndexError", message |-> "index out of bounds", index |-> Some(i)]

\* the guard of app.py:225 without its test for a negative index
SliceIndexOutOfRange_NoLowerBound(slice_idx, volume) == slice_idx >= Len(volume)

\* app.py:225
SliceIndexOutOfRange(slice_idx, volume) ==
    slice_idx < 0 \/ slice_idx >= Len(volume)

get_slice(session_id, slice_idx, dirs) ==
    LET request == [session_id |-> session_id, slice_idx |-> slice_idx]
        dir == Directory(session_id, dirs)
        session_data == Get(dir.session_json)
        volume == Get(dir.volume_npy)
        window_center == session_data.metadata.window_center
        window_width == session_data.metadata.window_width
        Fail(status, error, exception) ==
            {Failure("slice", request, status, error, exception)}
    IN  IF ~dir.exists
        THEN Fail(404, "Session not found", NoException)
        ELSE IF ~Has(dir.session_json)
        THEN Fail(500, "Error retrieving slice", FileNotFoundError("session.json"))
        ELSE IF ~Has(dir.volume_npy)
        THEN Fail(500, "Error retrieving slice", FileNotFoundError("volume.npy"))
        ELSE IF SliceIndexOutOfRange(slice_idx, volume)
        THEN Fail(400, "Slice index out of range", NoException)
        ELSE IF ~IndexInAxis(slice_idx, Len(volume))
        THEN Fail(500, "Error retrieving slice", IndexError(slice_idx))
        ELSE {[op |-> "slice", request |-> request, status |-> 200,
               image |-> normalized, slice_idx |-> slice_idx,
               total_slices |-> Len(volume)] :
                normalized \in normalize_image(AxialPlane(volume, slice_idx),
                                               window_center, window_width)}

\* the index of the middle plane of an axis, taken as the last plane
MidIndex_Last(n) == n - 1

\* shape // 2 of app.py:273-274
MidIndex(n) == n \div 2

get_multiplanar_views(session_id, dirs) ==
    LET request == [session_id |-> session_id]
        dir == Directory(session_id, dirs)
        session_data == Get(dir.session_json)
        volume == Get(dir.volume_npy)
        window_center == session_data.metadata.window_center
        window_width == session_data.metadata.window_width
        axial_slice == AxialPlane(volume, 0)
        coronal_slice == CoronalPlane(volume, MidIndex(Shape3(volume)[2]))
        sagittal_slice == SagittalPlane(volume, MidIndex(Shape3(volume)[3]))
        Fail(status, error, exception) ==
            {Failure("views", request, status, error, exception)}
    IN  IF ~dir.exists
        THEN Fail(404, "Session not found", NoException)
        ELSE IF ~Has(dir.session_json)
        THEN Fail(500, "Error generating views", FileNotFoundError("session.json"))
        ELSE IF ~Has(dir.volume_npy)
        THEN Fail(500, "Error generating views", FileNotFoundError("volume.npy"))
        ELSE {[op |-> "views", request |-> request, status |-> 200,
               axial |-> a, coronal |-> c, sagittal |-> g,
               volume_shape |-> Shape3(volume)] :
                a \in normalize_image(axial_slice, window_center, window_width),
                c \in normalize_image(coronal_slice, window_center, window_width),
                g \in normalize_image(sagittal_slice, window_center, window_width)}

----------------------------------------------------------------------------
(* The server: the scan on the client's disk and in the datasets folder,   *)
(* the session folder, and one action per request.                         *)

NoResult == [raised |-> FALSE, slices |-> << >>]
NoResponse == [op |-> "none", status |-> 0]

\* the clients that may have a request under way at the same time
Clients == {"first", "second"}
Idle == [stage |-> "idle"]
NoRequests == [client \in Clients |-> Idle]

Init ==
    /\ \E k \in 1..MaxFiles :
         \E variant \in [1..k -> Variants] :
            files = [i \in 1..k |-> ScanFile(i, variant[i])]
    /\ uploads = << >>
    /\ resp = NoResponse
    /\ requests = NoRequests
    /\ pc = "serving"
    /\ once = NoResult
    /\ twice = NoResult
    /\ grid = << >>
    /\ window = <<None, None>>
    /\ image = << >>

UploadFile ==
    \E request \in UploadRequests :
        \E done \in {upload_file(request, files, uploads)} :
            /\ Len(done.uploads) <= MaxSessions
            /\ uploads' = done.uploads
            /\ resp' = done.resp
            /\ UNCHANGED <<files, pc, once, twice, grid, window, image, requests>>

LoadPatient ==
    \E request \in PatientPaths :
        \E done \in {load_patient(request, files, uploads)} :
            /\ Len(done.uploads) <= MaxSessions
            /\ uploads' = done.uploads
            /\ resp' = done.resp
            /\ UNCHANGED <<files, pc, once, twice, grid, window, image, requests>>

GetSlice ==
    \E session_id \in 1..MaxSessions, slice_idx \in -1..MaxFiles :
        /\ resp' \in get_slice(session_id, slice_idx, uploads)
        /\ UNCHANGED <<files, uploads, pc, once, twice, grid, window, image, requests>>

GetViews ==
    \E session_id \in 1..MaxSessions :
        /\ resp' \in get_multiplanar_views(session_id, uploads)
        /\ UNCHANGED <<files, uploads, pc, once, twice, grid, window, image, requests>>

Next == UploadFile \/ LoadPatient \/ GetSlice \/ GetViews

Spec == Init /\ [][Next]_vars

----------------------------------------------------------------------------
(* The harness of load_dicom_slices *)


InitOrder ==
    /\ \E k \in 1..MaxSlices :
         \E zs \in [1..k -> Positions], ns \in [1..k -> Instances] :
            files = [i \in 1..k |-> OrderDataset(i, zs[i], ns[i])]
    /\ pc = "start"
    /\ once = NoResult
    /\ twice = NoResult
    /\ grid = << >>
    /\ window = <<None, None>>
    /\ image = << >>
    /\ uploads = << >>
    /\ resp = NoResponse
    /\ requests = NoRequests

Order ==
    /\ pc = "start"
    /\ once' = load_dicom_slices(files)
    /\ pc' = "once"
    /\ UNCHANGED <<files, twice, grid, window, image, uploads, resp, requests>>

Reorder ==
    /\ pc = "once"
    /\ ~once.raised
    /\ twice' = load_dicom_slices(once.slices)
    /\ pc' = "twice"
    /\ UNCHANGED <<files, once, grid, window, image, uploads, resp, requests>>

NextOrder == Order \/ Reorder

SpecOrder == InitOrder /\ [][NextOrder]_vars

----------------------------------------------------------------------------
(* The harness of apply_modality_lut *)

InitLut ==
    /\ grid \in RowArrays(RawValues)
    /\ \E slope \in Slopes, intercept \in Intercepts :
            files = <<LutDataset(slope, intercept)>>
    /\ pc = "start"
    /\ once = NoResult
    /\ twice = NoResult
    /\ window = <<None, None>>
    /\ image = << >>
    /\ uploads = << >>
    /\ resp = NoResponse
    /\ requests = NoRequests

ApplyLut ==
    /\ pc = "start"
    /\ image' = apply_modality_lut(grid, files[1])
    /\ pc' = "lut"
    /\ UNCHANGED <<files, once, twice, grid, window, uploads, resp, requests>>

NextLut == ApplyLut

SpecLut == InitLut /\ [][NextLut]_vars

----------------------------------------------------------------------------
(* The harness of normalize_image *)

InitNorm ==
    /\ grid \in RowArrays(Intensities)
    /\ window \in WindowCenters \X WindowWidths
    /\ files = << >>
    /\ pc = "start"
    /\ once = NoResult
    /\ twice = NoResult
    /\ image = << >>
    /\ uploads = << >>
    /\ resp = NoResponse
    /\ requests = NoRequests

Normalize ==
    /\ pc = "start"
    /\ image' \in normalize_image(grid, window[1], window[2])
    /\ pc' = "normalized"
    /\ UNCHANGED <<files, once, twice, grid, window, uploads, resp, requests>>

NextNorm == Normalize

SpecNorm == InitNorm /\ [][NextNorm]_vars

----------------------------------------------------------------------------
(* Requests under way.  A session is stored and the clients send slice and *)
(* view requests whose steps interleave: a request reads session.json and  *)
(* volume.npy into memory of its own, renders its planes one call of       *)
(* normalize_image at a time, and answers.  The planes are views of the    *)
(* volume the request loaded: what a call writes to the array it was given *)
(* shows in the planes rendered after it.                                  *)

View(volume, axis, index) ==
    IF axis = "axial" THEN AxialPlane(volume, index)
    ELSE IF axis = "coronal" THEN CoronalPlane(volume, index)
    ELSE SagittalPlane(volume, index)

\* the volume once `array` is written through the view
WriteView(volume, axis, index, array) ==
    [n \in 1..Len(volume) |->
        [r \in 1..NumRows(volume[1]) |->
            [c \in 1..NumCols(volume[1]) |->
                IF axis = "axial" /\ n = Position(index, Len(volume))
                THEN array[r][c]
                ELSE IF axis = "coronal"
                        /\ r = Position(index, NumRows(volume[1]))
                THEN array[n][c]
                ELSE IF axis = "sagittal"
                        /\ c = Position(index, NumCols(volume[1]))
                THEN array[n][r]
                ELSE volume[n][r][c]]]]

\* normalize_image without the copy of app.py:80: `pixel_array -= min` of
\* app.py:92 writes to the array of the caller; every other statement
\* binds a new array
CallerArrayAfter_InPlace(pixel_array, window_center, window_width) ==
    IF Has(window_center) /\ Has(window_width) THEN pixel_array
    ELSE [r \in 1..NumRows(pixel_array) |->
            [c \in 1..NumCols(pixel_array) |->
                pixel_array[r][c] - ArrayMin(pixel_array)]]

\* the array of the caller after normalize_image(pixel_array, ...):
\* app.py:80 rebinds pixel_array to astype(float), a new array, and the
\* arithmetic that follows works on that one
CallerArrayAfter(pixel_array, window_center, window_width) == pixel_array

\* the planes a request renders, in the order of its calls
Planes(op, slice_idx, volume) ==
    IF op = "slice" THEN <<[axis |-> "axial", index |-> slice_idx]>>
    ELSE <<[axis |-> "axial", index |-> 0],
           [axis |-> "coronal", index |-> MidIndex(Shape3(volume)[2])],
           [axis |-> "sagittal", index |-> MidIndex(Shape3(volume)[3])]>>

\* jsonify(...) of app.py:237-241 and 281-286
Rendered(q, images) ==
    IF q.op = "slice"
    THEN [op |-> "slice",
          request |-> [session_id |-> q.session_id, slice_idx |-> q.slice_idx],
          status |-> 200, image |-> images[1], slice_idx |-> q.slice_idx,
          total_slices |-> Len(q.volume)]
    ELSE [op |-> "views", request |-> [session_id |-> q.session_id],
          status |-> 200, axial |-> images[1], coronal |-> images[2],
          sagittal |-> images[3], volume_shape |-> Shape3(q.volume)]

Answered(response) == [stage |-> "done", resp |-> response]

InitRender ==
    /\ \E k \in 1..MaxFiles :
         \E variant \in [1..k -> Variants] :
            files = [i \in 1..k |-> ScanFile(i, variant[i])]
    /\ \E source \in {"upload", "dataset"} :
         LET done == IF source = "upload"
                     THEN upload_file(UploadRequest(TRUE, "SCAN.ZIP", "scan"),
                                      files, << >>)
                     ELSE load_patient("scan", files, << >>)
         IN  /\ done.resp.status = 200
             /\ uploads = done.uploads
    /\ requests = NoRequests
    /\ resp = NoResponse
    /\ pc = "serving"
    /\ once = NoResult
    /\ twice = NoResult
    /\ grid = << >>
    /\ window = <<None, None>>
    /\ image = << >>

\* app.py:207-226 and 249-265: the request up to the point where it holds
\* session.json and the volume, or its answer if it does not get there
Receive(client) ==
    /\ requests[client].stage = "idle"
    /\ \E op \in {"slice", "views"}, session_id \in 1..MaxSessions,
          slice_idx \in -1..MaxFiles :
         LET dir == Directory(session_id, uploads)
             stored == dir.exists /\ Has(dir.session_json) /\ Has(dir.volume_npy)
             refused ==
                \/ ~stored
                \/ op = "slice" /\ SliceIndexOutOfRange(slice_idx, Get(dir.volume_npy))
         IN  /\ op = "views" => slice_idx = 0
             /\ IF refused
                THEN \E response \in
                        IF op = "slice"
                        THEN get_slice(session_id, slice_idx, uploads)
                        ELSE get_multiplanar_views(session_id, uploads) :
                        requests' = [requests EXCEPT ![client] = Answered(response)]
                ELSE requests' = [requests EXCEPT ![client] =
                        [stage |-> "loaded", op |-> op,
                         session_id |-> session_id, slice_idx |-> slice_idx,
                         session_data |-> Get(dir.session_json),
                         volume |-> Get(dir.volume_npy),
                         images |-> << >>]]
    /\ UNCHANGED <<files, uploads, resp, pc, once, twice, grid, window, image>>

\* one call of normalize_image (app.py:234, 277-279), and the answer after
\* the last one
RenderPlane(client) ==
    /\ requests[client].stage = "loaded"
    /\ LET q == requests[client]
           planes == Planes(q.op, q.slice_idx, q.volume)
           plane == planes[Len(q.images) + 1]
           pixel_array == View(q.volume, plane.axis, plane.index)
           window_center == q.session_data.metadata.window_center
           window_width == q.session_data.metadata.window_width
           left == WriteView(q.volume, plane.axis, plane.index,
                             CallerArrayAfter(pixel_array, window_center,
                                              window_width))
       IN  \E normalized \in
                normalize_image(pixel_array, window_center, window_width) :
              LET images == Append(q.images, normalized)
              IN  requests' = [requests EXCEPT ![client] =
                        IF Len(images) = Len(planes)
                        THEN Answered(Rendered(q, images))
                        ELSE [q EXCEPT !.images = images, !.volume = left]]
    /\ UNCHANGED <<files, uploads, resp, pc, once, twice, grid, window, image>>

\* the client takes its answer and may ask again
Collect(client) ==
    /\ requests[client].stage = "done"
    /\ requests' = [requests EXCEPT ![client] = Idle]
    /\ UNCHANGED <<files, uploads, resp, pc, once, twice, grid, window, image>>

NextRender ==
    \E client \in Clients :
        Receive(client) \/ RenderPlane(client) \/ Collect(client)

SpecRender == InitRender /\ [][NextRender]_vars

----------------------------------------------------------------------------
(* Claims about the ordering, checked under SpecOrder *)

AllHavePosition(s) == \A i \in 1..Len(s) : Has(s[i].ImagePositionPatient)
SomeLacksPosition(s) == \E i \in 1..Len(s) : ~Has(s[i].ImagePositionPatient)
SomeHasInstance(s) == \E i \in 1..Len(s) : Has(s[i].InstanceNumber)

SameDatasets(a, b) ==
    /\ Len(a) = Len(b)
    /\ {a[i] : i \in 1..Len(a)} = {b[i] : i \in 1..Len(b)}

AscendingPosition(s) ==
    \A i, j \in 1..Len(s) :
        i < j => Get(s[i].ImagePositionPatient) <= Get(s[j].ImagePositionPatient)

InstanceOrZero(ds) == IF Has(ds.InstanceNumber) THEN Get(ds.InstanceNumber) ELSE 0

AscendingInstance(s) ==
    \A i, j \in 1..Len(s) : i < j => InstanceOrZero(s[i]) <= InstanceOrZero(s[j])

FileOrder(s) == [i \in 1..Len(s) |-> s[i].file]
PositionsOf(s) == [i \in 1..Len(s) |-> s[i].ImagePositionPatient]
InstancesOf(s) == [i \in 1..Len(s) |-> s[i].InstanceNumber]

\* position_z = [2.5, 0.0, 1.25] (in units of 1.25 mm), instance_number = [3, 1, 2]
ScenarioSeries ==
    /\ PositionsOf(files) = <<Some(2), Some(0), Some(1)>>
    /\ InstancesOf(files) = <<Some(3), Some(1), Some(2)>>

\* C1: when every slice has a position, load_dicom_slices returns the same
\* slices in ascending order of position, whatever their instance numbers
\* are; the scenario series comes back as [s1, s2, s0].
C1_SortedByPosition ==
    (pc /= "start" /\ AllHavePosition(files)) =>
        /\ ~once.raised
        /\ SameDatasets(once.slices, files)
        /\ AscendingPosition(once.slices)
        /\ (ScenarioSeries => FileOrder(once.slices) = <<2, 3, 1>>)

C1_Witness == pc = "once" /\ ScenarioSeries /\ ~once.raised

\* C2: when some slice lacks a position, load_dicom_slices returns the same
\* slices in ascending order of instance number, a slice without an
\* instance number counting as 0.
C2_FallbackByInstance ==
    (pc /= "start" /\ SomeLacksPosition(files)) =>
        /\ ~once.raised
        /\ SameDatasets(once.slices, files)
        /\ AscendingInstance(once.slices)

\* C3: load_dicom_slices either raises or returns the slices sorted by a key
\* that is usable (the position when every slice has one, else the instance
\* number); a series of several slices with no usable key raises.
C3_SortedOrRaises ==
    pc /= "start" =>
        \/ once.raised
        \/ /\ AllHavePosition(files)
           /\ AscendingPosition(once.slices)
        \/ /\ SomeLacksPosition(files)
           /\ SomeHasInstance(files) \/ Len(files) = 1
           /\ AscendingInstance(once.slices)

\* C4: ordering the slices that load_dicom_slices returned returns the same
\* sequence and does not raise.
C4_Idempotent ==
    pc = "twice" => ~twice.raised /\ twice.slices = once.slices

----------------------------------------------------------------------------
(* Claims about the handlers, checked under Spec *)

\* the slices of the scan in the order load_dicom_slices gives them
Loaded == load_dicom_slices(files)
Ordered == Loaded.slices
Calibrated(ds) == apply_modality_lut(ds.pixel_array, ds)

\* the last request was an upload or a dataset load of the scan
ScanLoaded ==
    \/ resp.op = "upload" /\ resp.request = UploadRequest(TRUE, "SCAN.ZIP", "scan")
    \/ resp.op = "load" /\ resp.request = "scan"

UniformShape(s) ==
    \A i \in 1..Len(s) : Shape2(s[i].pixel_array) = Shape2(s[1].pixel_array)

\* Python's index of the first slice whose shape is not that of slice 0
OffendingIndex(s) ==
    CHOOSE i \in 1..(Len(s) - 1) :
        /\ Shape2(s[i + 1].pixel_array) /= Shape2(s[1].pixel_array)
        /\ \A j \in 1..(i - 1) :
                Shape2(s[j + 1].pixel_array) = Shape2(s[1].pixel_array)

NoVolumeStored == \A id \in 1..Len(uploads) : ~Has(uploads[id].volume_npy)

\* C6: a load of slices whose shapes differ fails with an error that names
\* the index of the offending slice, and stores no volume.
C6_ShapeMismatchNamed ==
    (ScanLoaded /\ ~Loaded.raised /\ Ordered /= << >> /\ ~UniformShape(Ordered)) =>
        /\ resp.status >= 400
        /\ resp.exception.index = Some(OffendingIndex(Ordered))
        /\ NoVolumeStored

\* the session a slice or views response is about
AskedDirectory == Directory(resp.request.session_id, uploads)
AskedVolume == Get(AskedDirectory.volume_npy)
AskedMetadata == Get(AskedDirectory.session_json).metadata
Served(op) == resp.op = op /\ resp.status = 200

\* C7: a stored volume has one axial plane per ordered slice, plane i being
\* the calibrated array of slice i; get_slice answers index i with the
\* image of that array and with the number of slices.
C7_AxialRoundTrip ==
    /\ \A id \in 1..Len(uploads) :
            Has(uploads[id].volume_npy) =>
                LET volume == Get(uploads[id].volume_npy)
                IN  /\ Len(volume) = Len(Ordered)
                    /\ \A i \in 1..Len(Ordered) :
                            volume[i] = Calibrated(Ordered[i])
    /\ Served("slice") =>
            /\ resp.total_slices = Len(Ordered)
            /\ resp.image \in
                    normalize_image(Calibrated(Ordered[resp.slice_idx + 1]),
                                    AskedMetadata.window_center,
                                    AskedMetadata.window_width)

\* a scan of two slices that the ordering turns round, read back at index 1
C7_Witness ==
    /\ Served("slice")
    /\ resp.slice_idx = 1
    /\ Len(Ordered) = 2
    /\ FileOrder(Ordered) = <<2, 1>>
    /\ Calibrated(Ordered[1]) /= Calibrated(Ordered[2])

AskedStored ==
    /\ AskedDirectory.exists
    /\ Has(AskedDirectory.session_json)
    /\ Has(AskedDirectory.volume_npy)

InAxis(i, n) == 0 <= i /\ i < n

C9_DefaultViews ==
    Served("views") =>
        LET n == Len(AskedVolume)
            rows == NumRows(AskedVolume[1])
            columns == NumCols(AskedVolume[1])
            coronal == [k \in 1..n |->
                            [c \in 1..columns |->
                                AskedVolume[k][(rows \div 2) + 1][c]]]
            sagittal == [k \in 1..n |->
                            [r \in 1..rows |->
                                AskedVolume[k][r][(columns \div 2) + 1]]]
        IN  /\ InAxis(rows \div 2, rows)
            /\ InAxis(columns \div 2, columns)
            /\ resp.volume_shape = <<n, rows, columns>>
            /\ Shape2(resp.coronal) = <<n, columns>>
            /\ Shape2(resp.sagittal) = <<n, rows>>
            /\ resp.coronal \in normalize_image(coronal,
                    AskedMetadata.window_center, AskedMetadata.window_width)
            /\ resp.sagittal \in normalize_image(sagittal,
                    AskedMetadata.window_center, AskedMetadata.window_width)

C9_Witness ==
    /\ Served("views")
    /\ resp.volume_shape = <<2, 2, 3>>
    /\ resp.coronal /= resp.axial

----------------------------------------------------------------------------
(* Claims about the pixel functions, checked under SpecLut and SpecNorm *)

SlopeOrOne(ds) == IF Has(ds.RescaleSlope) THEN Get(ds.RescaleSlope) ELSE 1
InterceptOrZero(ds) ==
    IF Has(ds.RescaleIntercept) THEN Get(ds.RescaleIntercept) ELSE 0

\* C5: every element apply_modality_lut returns is raw * slope + intercept,
\* an absent slope counting as 1 and an absent intercept as 0, each on its
\* own.
C5_LutDefaults ==
    pc = "lut" =>
        \A c \in 1..NumCols(grid) :
            image[1][c] =
                grid[1][c] * SlopeOrOne(files[1]) + InterceptOrZero(files[1])

ExplicitWindow == Has(window[1]) /\ Has(window[2]) /\ Get(window[2]) > 0

\* C10: with a window of positive width every element of the result is in
\* 0..255, an input at or below low gives 0, one at or above high gives 255,
\* the centre gives 128 within 1, the result of an element is what the same
\* value gives when normalised alone (the rest of the array plays no part),
\* and centre 1000, width 2000 sends 2500 to 255.
C10_ExplicitWindow ==
    (pc = "normalized" /\ ExplicitWindow) =>
        LET wc == Get(window[1])
            ww == Get(window[2])
        IN  \A c \in 1..NumCols(grid) :
                LET v == grid[1][c]
                    out == image[1][c]
                IN  /\ out \in 0..255
                    /\ 2 * v <= 2 * wc - ww => out = 0
                    /\ 2 * v >= 2 * wc + ww => out = 255
                    /\ v = wc => out \in 127..129
                    /\ normalize_image(<<<<v>>>>, window[1], window[2])
                            = {<<<<out>>>>}
                    /\ (wc = 1000 /\ ww = 2000 /\ v = 2500) => out = 255

C10_Witness ==
    /\ pc = "normalized"
    /\ window = <<Some(1000), Some(2000)>>
    /\ grid = <<<<0, 2500>>>>
    /\ image = <<<<0, 255>>>>

DegenerateWindow == Has(window[1]) /\ Has(window[2]) /\ Get(window[2]) <= 0

\* C11: a window of width 0 or less is rejected: normalize_image raises for
\* it and no image comes out of the call.
C11_DegenerateWindowRejected ==
    (pc = "normalized" /\ DegenerateWindow) => image = << >>

NoWindow == ~(Has(window[1]) /\ Has(window[2]))

IsLeast(v, a) == \A c \in 1..NumCols(a) : v <= a[1][c]
IsConstant(a) == \A c, d \in 1..NumCols(a) : a[1][c] = a[1][d]

\* C12: without a window normalize_image has one result, defined for every
\* array: every element of it is in 0..255, an element that was the least
\* of the array is 0, and a constant array gives zeros throughout.
C12_AutomaticRange ==
    (pc = "normalized" /\ NoWindow) =>
        /\ normalize_image(grid, window[1], window[2]) = {image}
        /\ Shape2(image) = Shape2(grid)
        /\ \A c \in 1..NumCols(grid) :
                /\ image[1][c] \in 0..255
                /\ IsLeast(grid[1][c], grid) => image[1][c] = 0
                /\ IsConstant(grid) => image[1][c] = 0

\* a constant array below zero, with a centre but no width
C12_Witness ==
    /\ pc = "normalized"
    /\ window = <<Some(40), None>>
    /\ grid = <<<<-524, -524>>>>
    /\ image = <<<<0, 0>>>>

----------------------------------------------------------------------------
(* Claims about requests under way, checked under SpecRender *)

\* what the handler gives when it runs alone on the folder as it is
Alone(response) ==
    IF response.op = "slice"
    THEN get_slice(response.request.session_id, response.request.slice_idx,
                   uploads)
    ELSE get_multiplanar_views(response.request.session_id, uploads)

\* C13: no step of a slice or views request, however the steps of two
\* requests interleave, changes a stored session (volume.npy and
\* session.json stay as they were), and every answer is the one the same
\* request gets when it runs alone.
C13_ReadOnlyRendering ==
    /\ [][uploads' = uploads]_vars
    /\ [](\A client \in Clients :
            requests[client].stage = "done" =>
                requests[client].resp \in Alone(requests[client].resp))

\* both clients ask for the views of a session without a window, and the
\* second has rendered a plane while the first has its answer
C13_Witness ==
    /\ requests["first"].stage = "done"
    /\ requests["first"].resp.op = "views"
    /\ requests["first"].resp.status = 200
    /\ requests["second"].stage = "loaded"
    /\ requests["second"].op = "views"
    /\ Len(requests["second"].images) = 1
    /\ ~Has(requests["second"].session_data.metadata.window_center)
    /\ Len(requests["second"].volume) = 2

----------------------------------------------------------------------------
(* Claims about the session folder, checked under Spec *)

\* the window of a dataset: the first value of WindowCenter and of
\* WindowWidth when it has both, none otherwise
WindowOf(ds) ==
    IF ds.WindowCenter /= << >> /\ ds.WindowWidth /= << >>
    THEN <<Some(ds.WindowCenter[1]), Some(ds.WindowWidth[1])>>
    ELSE <<None, None>>

StoredWindow(dir) ==
    <<Get(dir.session_json).metadata.window_center,
      Get(dir.session_json).metadata.window_width>>

\* the image of a plane under a session's window
RenderedWith(w, plane) ==
    IF w = <<None, None>> THEN {AutoRange(plane)}
    ELSE Windowed(plane, Get(w[1]), Get(w[2]))

\* C14: the window stored with a session is the window of the first slice
\* of the ordered series (the first value of a list), or none; no request
\* changes a stored session.json; every slice and every view that is served
\* is rendered with the stored window, and by the range of the plane's own
\* values exactly when there is none.
C14_WindowLifecycle ==
    /\ [](\A id \in 1..Len(uploads) :
            Has(uploads[id].session_json) =>
                StoredWindow(uploads[id]) = WindowOf(Ordered[1]))
    /\ [][\A id \in 1..Len(uploads) :
            Has(uploads[id].session_json) =>
                /\ id \in 1..Len(uploads')
                /\ uploads'[id].session_json = uploads[id].session_json]_vars
    /\ [](Served("slice") =>
            resp.image \in RenderedWith(StoredWindow(AskedDirectory),
                                        AskedVolume[resp.slice_idx + 1]))
    /\ [](Served("views") =>
            LET w == StoredWindow(AskedDirectory)
                v == AskedVolume
            IN  /\ resp.axial \in RenderedWith(w, v[1])
                /\ resp.coronal \in
                    RenderedWith(w, CoronalPlane(v, NumRows(v[1]) \div 2))
                /\ resp.sagittal \in
                    RenderedWith(w, SagittalPlane(v, NumCols(v[1]) \div 2)))

\* the ordering puts file 2 first; its windows are a list whose first width
\* is 300, while file 1 has the width 400
C14_Witness ==
    /\ Served("slice")
    /\ FileOrder(Ordered) = <<2, 1>>
    /\ files[2].WindowWidth = <<300, 2000>>
    /\ files[1].WindowWidth = <<400>>
    /\ StoredWindow(AskedDirectory) = <<Some(200), Some(300)>>

\* C15: a load that ends with an error leaves no directory behind: every
\* directory of the session folder holds session.json and volume.npy, and
\* a slice or views request for a session that was not stored is answered
\* 404 "Session not found".
C15_NoHalfCreatedSessions ==
    /\ \A id \in 1..Len(uploads) :
            uploads[id].exists =>
                Has(uploads[id].session_json) /\ Has(uploads[id].volume_npy)
    /\ (resp.op \in {"slice", "views"} /\ ~AskedStored) =>
            /\ resp.status = 404
            /\ resp.error = "Session not found"

====
